---- MODULE Spec2Model ----
(***************************************************************************)
(* A model of brave/ia2: the enclave's main() start-up sequence and its    *)
(* certificate fingerprint (src/ia2.go), the AF_INET -> AF_VSOCK proxy     *)
(* VProxy (the Go file that follows the module file in src/go.mod), and    *)
(* the HTTP receiver with its confirmation-token handler                   *)
(* (src/receiver_web.go).                                                  *)
(*                                                                         *)
(* Five specifications share the state and the actions:                   *)
(*   Spec       main(), the certificate paths and the HTTPS server         *)
(*   ProxySpec  main() up to <-done and the whole of VProxy                *)
(*   RelaySpec  VProxy with one client, its payload around the buffer size *)
(*   RecvSpec   the web receiver, its handlers and the inbox consumer      *)
(*   CertSpec   setCertFingerprint, iteration by iteration                 *)
(* FairSpec, FairProxySpec, FairRelaySpec and FairCertSpec add the         *)
(* fairness of the program's own steps.                                    *)
(***************************************************************************)
EXTENDS Integers, Sequences, FiniteSets, TLC

\* ------------------------------------------------------------------ bounds
\* Distinct leaf certificates that can be generated or issued.
NumCerts == 2
\* Requests the HTTPS server answers in one run.
MaxServed == 2

\* Inbound TCP connections the proxy's listener receives.
MaxConns == 2
\* Requests the web receiver's handler gets in one run.
MaxReqs == 2
\* Errors ln.Accept returns in one run.
MaxAcceptErrs == 1
\* len(buf) in VProxy.pipe, scaled down from 0xffff bytes.
BufSize == 2
\* Bytes each client sends where several connections are open at once.
LoopPayloadLen == 1
\* Distinct keys crypto/rand can draw.
NumKeys == 2
\* Times the consumer's timer fires in one run.
MaxTicks == 2
\* PEM blocks in the data setCertFingerprint is given.
MaxChainLen == 3
\* Goroutines of webReceiver.start() that have not yet called
\* ListenAndServe, at any one time; start() may be called any number of times.
MaxStarts == 1

\* --------------------------------------------------------------- constants
Conns == 1..MaxConns
\* A pipe's direction: up is pipe(lconn, rconn), down is pipe(rconn, lconn).
Dirs == {"up", "down"}
Reqs == 1..MaxReqs
\* The ports setConfig may give: 0 (any free port) and a fixed one.
ConfigPorts == {0, 8080}
\* Payload lengths below, at and above the buffer size.
PayloadSizes == {BufSize - 1, BufSize, BufSize + 1}
\* No certificate: tlsCert before a certificate exists.
NoCert == 0
\* No data: the cache before autocert stored anything for the name.
NoData == <<>>
LeafCerts == 1..NumCerts
\* Key material.  NoKey is a nil hmacKey or cryptoPAn; Key(k) holds the bytes
\* of the k-th key crypto/rand can draw; ZeroKey is make([]byte, n) as
\* allocated, before rand.Read filled it.
Keys == 1..NumKeys
NoKey == [set |-> FALSE, bytes |-> 0]
Key(k) == [set |-> TRUE, bytes |-> k]
ZeroKey == [set |-> TRUE, bytes |-> 0]

VARIABLES
    \* ---- process (src/ia2.go main)
    alive,          \* FALSE once log.Fatal / return from main ended the process
    useAcme,        \* the deployment constant useAcme (ia2.go:38)
    pcMain,         \* main()'s position
    envVars,        \* environment variables set by setEnvVar
    flusher,        \* "none" | "created" | "started" | "stopped"
    anonReady,      \* initAnonymization initialised its key material
    useCryptoPAn,   \* the deployment constant useCryptoPAn (ia2.go:42)
    debug,          \* the deployment constant debug (ia2.go:40)
    hmacKey,        \* the global hmacKey (ia2.go:58), NoKey while nil
    cryptoPAn,      \* the key of the global cryptoPAn (ia2.go:59), NoKey while nil
    keyLog,         \* the log events that contain key material
    \* ---- certificate and fingerprint
    certSha256,     \* the global certSha256 (ia2.go:57)
    handlerHash,    \* the value GetAttestationHandler was given (by value)
    tlsCert,        \* raw bytes of the leaf the HTTPS listener presents
    cache,          \* autocert's DirCache entry for fqdn (PEM data)
    pcPoll,         \* the cache polling goroutine of setupAcme
    pcChal,         \* the HTTP-01 challenge listener goroutine of setupAcme
    pollMissed,     \* cache.Get of the polling goroutine failed at least once (history)
    fpWrites,       \* number of assignments to certSha256 (history)
    \* ---- setCertFingerprint, statement by statement
    fpPc,           \* off | loop | returned | fatal
    fpInput,        \* the argument the call was given
    fpRawData,      \* the local rawData: the PEM data not yet decoded
    \* ---- HTTPS server
    attestLog,      \* answers of GET /attest: [fp, live]
    served,         \* number of requests answered
    \* ---- VProxy (src/go.mod, the proxy's Go file)
    pcProxy,        \* Start()'s position: off | bind | bindFailed | signal | accept | dial | dialBlocked
    readySignals,   \* number of values sent on the done channel (history)
    dialWaited,     \* the connections whose vsock.Dial had to wait (history)
    acceptErrs,     \* errors ln.Accept returned so far
    backlog,        \* connections the listener holds, not yet accepted
    cur,            \* the connection of the loop's current iteration (0: none)
    cstate,         \* per connection: new | queued | dialing | bridged | dropped
    lconn,          \* per connection: none | open | closed (the proxy's TCP end)
    rconn,          \* per connection: none | open | closed (the proxy's vsock end)
    pipe,           \* per connection and direction: none | read | write | done
    buf,            \* per pipe: b = buf[:n], read and not yet written
    avail,          \* per pipe: bytes its source holds, not yet read
    out,            \* per pipe: bytes written to its destination
    payload,        \* per connection: what the client sends
    echoed,         \* per connection: how many bytes the remote peer echoed
    peerClosed,     \* per connection: the ends ("l", "r") whose peer closed
    closes,         \* per pipe: calls of src.Close() (history)
    \* ---- webReceiver (src/receiver_web.go) and the inbox's consumer
    recvStarted,    \* a server of start() listens: requests are answered
    port,           \* w.port: 0 until setConfig sets it
    starting,       \* goroutines of start() that have not called ListenAndServe yet
    listening,      \* the fixed (non-zero) ports the receiver's servers hold
    recvStopped,    \* webReceiver.stop() ran: w.done is closed
    hpc,            \* per request: idle | send | done
    hreq,           \* per request: its version, wallet ID and client-IP header
    hresp,          \* per request: the response, [code, body]
    inboxLog,       \* every value received from the inbox channel, in order
    cpc,            \* the consumer: wait | drain | deliver
    batch,          \* the records the consumer holds for its next delivery
    posted,         \* the batches the consumer delivered, in order
    ticks           \* the consumer's timer fired this many times (history)

procVars == <<alive, useAcme, pcMain, envVars, flusher, anonReady>>
certVars == <<certSha256, handlerHash, tlsCert, cache, pcPoll, pcChal, fpWrites, pollMissed>>
httpVars == <<attestLog, served>>
proxyCtl == <<pcProxy, readySignals, dialWaited>>
loopVars == <<acceptErrs, backlog, cur, cstate, lconn, rconn>>
relayVars == <<pipe, buf, avail, out, payload, echoed, peerClosed, closes>>
connVars == <<loopVars, relayVars>>
recvVars == <<recvStarted, port, starting, listening, recvStopped, hpc, hreq, hresp, inboxLog, cpc, batch, posted, ticks>>
anonVars == <<useCryptoPAn, debug, hmacKey, cryptoPAn, keyLog>>
fpLoopVars == <<fpPc, fpInput, fpRawData>>
vars == <<procVars, anonVars, certVars, fpLoopVars, httpVars, proxyCtl, connVars, recvVars>>

\* ------------------------------------------------------------ certificates
\* sha256.Sum256: a digest is determined by, and distinct for distinct, input.
Sha256(raw) == [alg |-> "sha256", of |-> raw]
\* The zero value of [sha256.Size]byte.
ZeroHash == [alg |-> "zero", of |-> 0]

\* PEM blocks.  raw stands for the DER bytes of a certificate.
KeyBlock == [type |-> "EC PRIVATE KEY", isCA |-> FALSE, parses |-> FALSE, raw |-> 0]
Leaf(c) == [type |-> "CERTIFICATE", isCA |-> FALSE, parses |-> TRUE, raw |-> c]
CaCert(c) == [type |-> "CERTIFICATE", isCA |-> TRUE, parses |-> TRUE, raw |-> 100 + c]
Garbage == [type |-> "garbage", isCA |-> FALSE, parses |-> FALSE, raw |-> 0]
\* pem.Decode's nil block.
NoBlock == [type |-> "nil", isCA |-> FALSE, parses |-> FALSE, raw |-> 0]
\* No handler exists before initRouter.
NoHash == [alg |-> "none", of |-> 0]

\* pem.Decode: the first PEM block of the data and what follows it; text that
\* is no PEM block is skipped; without any block, (nil, data).
RECURSIVE PemDecode(_)
PemDecode(data) ==
    IF data = <<>> THEN [block |-> NoBlock, rest |-> data]
    ELSE IF Head(data).type = "garbage"
         THEN LET d == PemDecode(Tail(data))
              IN  IF d.block = NoBlock THEN [block |-> NoBlock, rest |-> data] ELSE d
         ELSE [block |-> Head(data), rest |-> Tail(data)]

\* setCertFingerprint: the loop over the PEM blocks.  The loop condition
\* rest != nil reads the outer rest, which the := in the body shadows and
\* which therefore stays []byte{}: the loop ends only by return or log.Fatal.
RECURSIVE SetCertFingerprint(_)
SetCertFingerprint(rawData) ==
    LET d == PemDecode(rawData)
    IN  IF d.block = NoBlock THEN [fatal |-> TRUE, fp |-> ZeroHash]
        ELSE IF d.block.type = "CERTIFICATE"
             THEN IF ~d.block.parses THEN [fatal |-> TRUE, fp |-> ZeroHash]
                  ELSE IF ~d.block.isCA
                       THEN [fatal |-> FALSE, fp |-> Sha256(d.block.raw)]
                       ELSE SetCertFingerprint(d.rest)
             ELSE SetCertFingerprint(d.rest)

\* A CERTIFICATE block whose bytes x509.ParseCertificate rejects.
BadCert == [type |-> "CERTIFICATE", isCA |-> FALSE, parses |-> FALSE, raw |-> 0]
\* The PEM data setCertFingerprint may be given: up to MaxChainLen blocks and
\* stretches of text that is no PEM block, in any order.
Blocks == {KeyBlock, Garbage, BadCert} \cup {Leaf(c) : c \in LeafCerts}
              \cup {CaCert(c) : c \in LeafCerts}
Chains == UNION {[1..n -> Blocks] : n \in 0..MaxChainLen}

\* What autocert stores for a name: the private key, the leaf, the issuer.
AcmeBundle(c) == <<KeyBlock, Leaf(c), CaCert(c)>>
\* What genSelfSignedCert encodes: the one self-signed certificate.
SelfSignedPem(c) == <<Leaf(c)>>

\* ------------------------------------------------- the receiver's inputs
\* A text is a sequence of characters.
Digits == <<"0", "1", "2", "3", "4", "5", "6", "7", "8", "9">>
IsDigit(ch) == \E i \in 1..10 : Digits[i] = ch
DigitVal(ch) == (CHOOSE i \in 1..10 : Digits[i] = ch) - 1

\* strconv.ParseUint(v, 10, 0): the empty text and any character that is no
\* decimal digit (a sign too) are syntax errors; otherwise the value, digit
\* by digit.  The texts here are far shorter than the 20 digits at which the
\* range error starts.
RECURSIVE ParseUintFrom(_, _)
ParseUintFrom(v, acc) ==
    IF v = <<>> THEN [err |-> FALSE, num |-> acc]
    ELSE IF ~IsDigit(Head(v)) THEN [err |-> TRUE, num |-> 0]
         ELSE ParseUintFrom(Tail(v), acc * 10 + DigitVal(Head(v)))
ParseUint(v) == IF v = <<>> THEN [err |-> TRUE, num |-> 0] ELSE ParseUintFrom(v, 0)

\* An upper bound that leaves out version 4 (num < 4).
IsValidApiVersion_OffByOne(v) ==
    LET r == ParseUint(v)
    IN  IF r.err THEN FALSE ELSE r.num >= 1 /\ r.num < 4

\* isValidApiVersion
IsValidApiVersion(v) ==
    LET r == ParseUint(v)
    IN  IF r.err THEN FALSE ELSE r.num >= 1 /\ r.num <= 4

\* uuid.Parse, on the wallet IDs of WalletInputs: the canonical form, the
\* same UUID in upper case and with the urn:uuid: prefix, and texts that are
\* no UUID.  id names the 128-bit value.
UuidParse(w) ==
    CASE w = "6ba7b810-9dad-11d1-80b4-00c04fd430c8" -> [err |-> FALSE, id |-> 1]
      [] w = "urn:uuid:6BA7B810-9DAD-11D1-80B4-00C04FD430C8" -> [err |-> FALSE, id |-> 1]
      [] w = "7d444840-9dc0-11d1-b245-5ffdce74fad2" -> [err |-> FALSE, id |-> 2]
      [] OTHER -> [err |-> TRUE, id |-> 0]

\* net.ParseIP, on the header values of AddrInputs: nil (ip 0) for a text
\* that is no IP literal; an IPv4 literal and its IPv4-mapped IPv6 form give
\* the same 16 bytes.
ParseIP(a) ==
    CASE a = "192.0.2.7" -> 1
      [] a = "::ffff:192.0.2.7" -> 1
      [] a = "2001:db8::1" -> 2
      [] OTHER -> 0

VersionInputs == {<<"0">>, <<"1">>, <<"4">>, <<"5">>, <<"0", "3">>, <<"+", "1">>, <<"x">>}
WalletInputs == {"6ba7b810-9dad-11d1-80b4-00c04fd430c8",
                 "urn:uuid:6BA7B810-9DAD-11D1-80B4-00C04FD430C8",
                 "6ba7b810-9dad-11d1-80b4"}
\* r.Header.Get(fastlyClientIP): "" when the request carries no such header.
AddrInputs == {"", "192.0.2.7", "::ffff:192.0.2.7", "192.0.2.300"}

NoReq == [version |-> <<>>, wallet |-> "", addr |-> ""]
NoResp == [code |-> 0, body |-> ""]
errBadApiVersion == "invalid ads API version"
errBadWalletFmt == "wallet ID has bad format"
errNoFastlyHeader == "found no \"Fastly-Client-IP\" header"
errBadFastlyAddrFormat == "bad IP address format in \"Fastly-Client-IP\" header"

\* ----------------------------------------------------------------- Init
Init ==
    /\ alive = TRUE
    /\ useAcme \in BOOLEAN
    /\ pcMain = "start"
    /\ envVars = {}
    /\ flusher = "none"
    /\ anonReady = FALSE
    /\ useCryptoPAn \in BOOLEAN
    /\ debug \in BOOLEAN
    /\ hmacKey = NoKey
    /\ cryptoPAn = NoKey
    /\ keyLog = {}
    /\ certSha256 = ZeroHash
    /\ handlerHash = NoHash
    /\ tlsCert = NoCert
    /\ cache = NoData
    /\ pcPoll = "off"
    /\ pcChal = "off"
    /\ pollMissed = FALSE
    /\ fpWrites = 0
    /\ fpPc = "off"
    /\ fpInput = <<>>
    /\ fpRawData = <<>>
    /\ attestLog = {}
    /\ served = 0
    /\ pcProxy = "off"
    /\ readySignals = 0
    /\ dialWaited = {}
    /\ acceptErrs = 0
    /\ backlog = <<>>
    /\ cur = 0
    /\ cstate = [c \in Conns |-> "new"]
    /\ lconn = [c \in Conns |-> "none"]
    /\ rconn = [c \in Conns |-> "none"]
    /\ pipe = [c \in Conns |-> [d \in Dirs |-> "none"]]
    /\ buf = [c \in Conns |-> [d \in Dirs |-> <<>>]]
    /\ avail = [c \in Conns |-> [d \in Dirs |-> <<>>]]
    /\ out = [c \in Conns |-> [d \in Dirs |-> <<>>]]
    /\ payload = [c \in Conns |-> <<>>]
    /\ echoed = [c \in Conns |-> 0]
    /\ peerClosed = [c \in Conns |-> {}]
    /\ closes = [c \in Conns |-> [d \in Dirs |-> 0]]
    /\ recvStarted = FALSE
    /\ port = 0
    /\ starting = 0
    /\ listening = {}
    /\ recvStopped = FALSE
    /\ hpc = [h \in Reqs |-> "idle"]
    /\ hreq = [h \in Reqs |-> NoReq]
    /\ hresp = [h \in Reqs |-> NoResp]
    /\ inboxLog = <<>>
    /\ cpc = "wait"
    /\ batch = <<>>
    /\ posted = <<>>
    /\ ticks = 0

\* The build as the source has it: useAcme = false, debug = true,
\* useCryptoPAn = true.  The proxy and the receiver read none of the three.
BuildInit == Init /\ ~useAcme /\ debug /\ useCryptoPAn

\* ------------------------------------------------------------------ main()
\* log.Fatal, log.Fatalf: the process ends, with every goroutine.
Exit == alive' = FALSE

\* main, lines 207-230: flag parsing, the debug ticker and, unless -local,
\* nitro.SeedEntropyPool and nitro.AssignLoAddr, either of which may fail.
MainNitroSetup ==
    /\ alive /\ pcMain = "start"
    /\ \E ok \in BOOLEAN :
          IF ok THEN pcMain' = "initRouter" /\ alive' = alive
                ELSE Exit /\ pcMain' = pcMain
    /\ UNCHANGED <<useAcme, envVars, flusher, anonReady, certVars, httpVars, proxyCtl, connVars, recvVars, anonVars, fpLoopVars>>

\* initRouter: nitro.GetAttestationHandler(certSha256) receives the array
\* certSha256 by value, as it is when initRouter runs.
MainInitRouter ==
    /\ alive /\ pcMain = "initRouter"
    /\ handlerHash' = certSha256
    /\ pcMain' = "initAnon"
    /\ UNCHANGED <<alive, useAcme, envVars, flusher, anonReady, certSha256, tlsCert,
                   cache, pcPoll, pcChal, pollMissed, fpWrites, httpVars, proxyCtl, connVars, recvVars, anonVars, fpLoopVars>>

\* An initAnonymization that ignores the error of rand.Read and goes on with
\* the buffer as it is.
InitAnonymization_IgnoresRandErr(useCP, randOk, newOk, k) ==
    LET key == IF randOk THEN Key(k) ELSE ZeroKey
    IN  IF ~useCP
        THEN [fatal |-> FALSE, hmacKey |-> key, cryptoPAn |-> NoKey,
              logged |-> {[line |-> "HMAC key", key |-> key]}]
        ELSE [fatal |-> ~newOk, hmacKey |-> NoKey,
              cryptoPAn |-> IF newOk THEN key ELSE NoKey,
              logged |-> {[line |-> "Crypto-PAn key", key |-> key]}]

\* An initAnonymization that draws the HMAC key in either strategy.
InitAnonymization_AlwaysHmac(useCP, randOk, newOk, k) ==
    IF ~randOk THEN [fatal |-> TRUE, hmacKey |-> ZeroKey, cryptoPAn |-> NoKey, logged |-> {}]
    ELSE IF ~useCP
         THEN [fatal |-> FALSE, hmacKey |-> Key(k), cryptoPAn |-> NoKey,
               logged |-> {[line |-> "HMAC key", key |-> Key(k)]}]
         ELSE [fatal |-> ~newOk, hmacKey |-> Key(k),
               cryptoPAn |-> IF newOk THEN Key(k) ELSE NoKey,
               logged |-> {[line |-> "Crypto-PAn key", key |-> Key(k)]}]

\* initAnonymization(useCryptoPAn), as a function of the constant, of whether
\* rand.Read and cryptopan.New succeed, and of the key rand.Read draws: what
\* it leaves in hmacKey and cryptoPAn, the key material it logs, and whether
\* it ends in log.Fatal.  Both log.Printf calls of the key are unconditional.
InitAnonymization(useCP, randOk, newOk, k) ==
    IF ~useCP
    THEN IF ~randOk
         THEN [fatal |-> TRUE, hmacKey |-> ZeroKey, cryptoPAn |-> NoKey, logged |-> {}]
         ELSE [fatal |-> FALSE, hmacKey |-> Key(k), cryptoPAn |-> NoKey,
               logged |-> {[line |-> "HMAC key", key |-> Key(k)]}]
    ELSE IF ~randOk
         THEN [fatal |-> TRUE, hmacKey |-> NoKey, cryptoPAn |-> NoKey, logged |-> {}]
         ELSE [fatal |-> ~newOk, hmacKey |-> NoKey,
               cryptoPAn |-> IF newOk THEN Key(k) ELSE NoKey,
               logged |-> {[line |-> "Crypto-PAn key", key |-> Key(k)]}]

\* main: initAnonymization(useCryptoPAn).
MainInitAnonymization ==
    /\ alive /\ pcMain = "initAnon"
    /\ \E randOk \in BOOLEAN, newOk \in BOOLEAN, k \in Keys :
          LET r == InitAnonymization(useCryptoPAn, randOk, newOk, k)
          IN  /\ hmacKey' = r.hmacKey
              /\ cryptoPAn' = r.cryptoPAn
              /\ keyLog' = keyLog \cup r.logged
              /\ IF r.fatal
                 THEN Exit /\ UNCHANGED <<anonReady, pcMain>>
                 ELSE anonReady' = TRUE /\ pcMain' = "newVProxy" /\ alive' = alive
    /\ UNCHANGED <<useAcme, envVars, flusher, certVars, httpVars, proxyCtl, connVars,
                   recvVars, useCryptoPAn, debug, fpLoopVars>>

\* NewVProxy() and go vproxy.Start(done).
MainNewVProxy ==
    /\ alive /\ pcMain = "newVProxy"
    /\ \E ok \in BOOLEAN :
          IF ok THEN pcProxy' = "bind" /\ pcMain' = "waitDone" /\ alive' = alive
                ELSE Exit /\ UNCHANGED <<pcProxy, pcMain>>
    /\ UNCHANGED <<useAcme, envVars, flusher, anonReady, certVars, httpVars, readySignals, dialWaited, connVars, recvVars, anonVars, fpLoopVars>>

\* VProxy.Start: net.Listen("tcp", bindAddr); log.Fatalf when it fails.
ProxyBind ==
    /\ alive /\ pcProxy = "bind"
    /\ \E ok \in BOOLEAN :
          IF ok THEN pcProxy' = "signal" /\ alive' = alive
                ELSE Exit /\ pcProxy' = "bindFailed"
    /\ UNCHANGED <<useAcme, pcMain, envVars, flusher, anonReady, certVars, httpVars,
                   readySignals, dialWaited, connVars, recvVars, anonVars, fpLoopVars>>

\* main() going on without the receive <-done.
ReadyHandoff_NoWait ==
    /\ alive /\ pcMain = "waitDone"
    /\ pcMain' = "setEnvHTTP"
    /\ UNCHANGED <<alive, useAcme, envVars, flusher, anonReady, certVars, httpVars,
                   proxyCtl, connVars, recvVars, anonVars, fpLoopVars>>

\* done <- true in Start meets <-done in main: the channel is unbuffered, so
\* the send and the receive are one step.
ReadyHandoff ==
    /\ alive /\ pcProxy = "signal" /\ pcMain = "waitDone"
    /\ readySignals' = readySignals + 1
    /\ pcProxy' = "accept"
    /\ pcMain' = "setEnvHTTP"
    /\ UNCHANGED <<alive, useAcme, envVars, flusher, anonReady, certVars, httpVars,
                   dialWaited, connVars, recvVars, anonVars, fpLoopVars>>

\* setEnvVar(key, value): os.Setenv, log.Fatalf when it fails.
SetEnvVar(key, next) ==
    \E ok \in BOOLEAN :
        IF ok THEN envVars' = envVars \cup {key} /\ pcMain' = next /\ alive' = alive
              ELSE Exit /\ UNCHANGED <<envVars, pcMain>>

MainSetEnvHTTP ==
    /\ alive /\ pcMain = "setEnvHTTP"
    /\ SetEnvVar("HTTP_PROXY", "setEnvHTTPS")
    /\ UNCHANGED <<useAcme, flusher, anonReady, certVars, httpVars, proxyCtl, connVars, recvVars, anonVars, fpLoopVars>>

MainSetEnvHTTPS ==
    /\ alive /\ pcMain = "setEnvHTTPS"
    /\ SetEnvVar("HTTPS_PROXY", "newFlusher")
    /\ UNCHANGED <<useAcme, flusher, anonReady, certVars, httpVars, proxyCtl, connVars, recvVars, anonVars, fpLoopVars>>

\* flusher = NewFlusher(flushInterval, kafkaBridgeURL)
MainNewFlusher ==
    /\ alive /\ pcMain = "newFlusher"
    /\ flusher' = "created"
    /\ pcMain' = "startFlusher"
    /\ UNCHANGED <<alive, useAcme, envVars, anonReady, certVars, httpVars, proxyCtl, connVars, recvVars, anonVars, fpLoopVars>>

\* flusher.Start()
MainStartFlusher ==
    /\ alive /\ pcMain = "startFlusher"
    /\ flusher' = "started"
    /\ pcMain' = "cert"
    /\ UNCHANGED <<alive, useAcme, envVars, anonReady, certVars, httpVars, proxyCtl, connVars, recvVars, anonVars, fpLoopVars>>

\* ------------------------------------------------- certificate and fingerprint
\* The assignment certSha256 = sha256.Sum256(cert.Raw), or log.Fatal, as
\* setCertFingerprint(rawData) ends.
ApplyFingerprint(rawData) ==
    LET r == SetCertFingerprint(rawData)
    IN  IF r.fatal
        THEN Exit /\ UNCHANGED <<certSha256, fpWrites>>
        ELSE certSha256' = r.fp /\ fpWrites' = fpWrites + 1 /\ alive' = alive

\* A call setCertFingerprint(data): rest := []byte{} and the loop begins.
FpCall(data) ==
    /\ alive /\ fpPc = "off"
    /\ fpInput' = data
    /\ fpRawData' = data
    /\ fpPc' = "loop"
    /\ UNCHANGED <<procVars, anonVars, certVars, httpVars, proxyCtl, connVars, recvVars>>

\* An iteration that returns at the first certificate, CA or not.
FpIterate_FirstCertificate ==
    /\ alive /\ fpPc = "loop"
    /\ LET d == PemDecode(fpRawData)
       IN  IF d.block = NoBlock \/ (d.block.type = "CERTIFICATE" /\ ~d.block.parses)
           THEN /\ Exit /\ fpPc' = "fatal"
                /\ UNCHANGED <<certSha256, fpWrites, fpRawData>>
           ELSE IF d.block.type = "CERTIFICATE"
           THEN /\ certSha256' = Sha256(d.block.raw)
                /\ fpWrites' = fpWrites + 1
                /\ fpPc' = "returned"
                /\ UNCHANGED <<alive, fpRawData>>
           ELSE /\ fpRawData' = d.rest
                /\ UNCHANGED <<alive, certSha256, fpWrites, fpPc>>
    /\ UNCHANGED <<useAcme, pcMain, envVars, flusher, anonReady, anonVars, handlerHash,
                   tlsCert, cache, pcPoll, pcChal, pollMissed, fpInput, httpVars, proxyCtl,
                   connVars, recvVars>>

\* An iteration without rawData = rest: the next one decodes the same data.
FpIterate_NoAdvance ==
    /\ alive /\ fpPc = "loop"
    /\ LET d == PemDecode(fpRawData)
       IN  IF d.block = NoBlock \/ (d.block.type = "CERTIFICATE" /\ ~d.block.parses)
           THEN /\ Exit /\ fpPc' = "fatal"
                /\ UNCHANGED <<certSha256, fpWrites, fpRawData>>
           ELSE IF d.block.type = "CERTIFICATE" /\ ~d.block.isCA
           THEN /\ certSha256' = Sha256(d.block.raw)
                /\ fpWrites' = fpWrites + 1
                /\ fpPc' = "returned"
                /\ UNCHANGED <<alive, fpRawData>>
           ELSE UNCHANGED <<alive, certSha256, fpWrites, fpPc, fpRawData>>
    /\ UNCHANGED <<useAcme, pcMain, envVars, flusher, anonReady, anonVars, handlerHash,
                   tlsCert, cache, pcPoll, pcChal, pollMissed, fpInput, httpVars, proxyCtl,
                   connVars, recvVars>>

\* One iteration of setCertFingerprint's loop.  The condition rest != nil
\* reads the outer rest, which stays []byte{}, so it always holds.
\* block, rest := pem.Decode(rawData); log.Fatal when block is nil or a
\* CERTIFICATE block does not parse; the assignment and return at a
\* certificate that is not a CA; otherwise rawData = rest.
FpIterate ==
    /\ alive /\ fpPc = "loop"
    /\ LET d == PemDecode(fpRawData)
       IN  IF d.block = NoBlock \/ (d.block.type = "CERTIFICATE" /\ ~d.block.parses)
           THEN /\ Exit /\ fpPc' = "fatal"
                /\ UNCHANGED <<certSha256, fpWrites, fpRawData>>
           ELSE IF d.block.type = "CERTIFICATE" /\ ~d.block.isCA
           THEN /\ certSha256' = Sha256(d.block.raw)
                /\ fpWrites' = fpWrites + 1
                /\ fpPc' = "returned"
                /\ UNCHANGED <<alive, fpRawData>>
           ELSE /\ fpRawData' = d.rest
                /\ UNCHANGED <<alive, certSha256, fpWrites, fpPc>>
    /\ UNCHANGED <<useAcme, pcMain, envVars, flusher, anonReady, anonVars, handlerHash,
                   tlsCert, cache, pcPoll, pcChal, pollMissed, fpInput, httpVars, proxyCtl,
                   connVars, recvVars>>

\* genSelfSignedCert(fqdn) for the certificate with raw bytes c: the PEM
\* encoding whose fingerprint it computes before it returns.
GenSelfSignedCert(c) == SelfSignedPem(c)

\* main, the else branch of `if useAcme`: genSelfSignedCert, fatal on error,
\* and the certificate becomes the server's TLSConfig.Certificates.  The
\* fingerprint write is the one genSelfSignedCert makes before it returns;
\* its body is not part of the source tree and follows the specification.
MainSelfSigned ==
    /\ alive /\ pcMain = "cert" /\ ~useAcme
    /\ \E ok \in BOOLEAN :
          IF ok
          THEN \E c \in LeafCerts :
                  /\ ApplyFingerprint(GenSelfSignedCert(c))
                  /\ tlsCert' = c
                  /\ pcMain' = "listen"
          ELSE Exit /\ UNCHANGED <<certSha256, fpWrites, tlsCert, pcMain>>
    /\ UNCHANGED <<useAcme, envVars, flusher, anonReady, handlerHash, cache, pcPoll,
                   pcChal, pollMissed, httpVars, proxyCtl, connVars, recvVars, anonVars, fpLoopVars>>

\* setupAcme: the cache directory (fatal on error), the two goroutines, and
\* TLSConfig.GetCertificate = certManager.GetCertificate.
MainSetupAcme ==
    /\ alive /\ pcMain = "cert" /\ useAcme
    /\ \E ok \in BOOLEAN :
          IF ok THEN /\ pcChal' = "listen" /\ pcPoll' = "get"
                     /\ pcMain' = "listen" /\ alive' = alive
                ELSE Exit /\ UNCHANGED <<pcChal, pcPoll, pcMain>>
    /\ UNCHANGED <<useAcme, envVars, flusher, anonReady, certSha256, handlerHash,
                   tlsCert, cache, fpWrites, pollMissed, httpVars, proxyCtl, connVars,
                   recvVars, anonVars, fpLoopVars>>

\* setupAcme's first goroutine: vsock.Listen(80), fatal on error, then serve.
ChallengeListen ==
    /\ alive /\ pcChal = "listen"
    /\ \E ok \in BOOLEAN :
          IF ok THEN pcChal' = "serving" /\ alive' = alive
                ELSE Exit /\ pcChal' = pcChal
    /\ UNCHANGED <<useAcme, pcMain, envVars, flusher, anonReady, certSha256,
                   handlerHash, tlsCert, cache, pcPoll, pollMissed, fpWrites, httpVars, proxyCtl, connVars, recvVars, anonVars, fpLoopVars>>

\* A polling loop that ends at the first miss.
PollMiss_GivesUp ==
    /\ alive /\ pcPoll = "get" /\ cache = NoData
    /\ pcPoll' = "done"
    /\ pollMissed' = TRUE
    /\ UNCHANGED <<procVars, certSha256, handlerHash, tlsCert, cache, pcChal,
                   fpWrites, httpVars, proxyCtl, connVars, recvVars, anonVars, fpLoopVars>>

\* setupAcme's second goroutine: cache.Get fails, time.Sleep(5s) follows.
PollMiss ==
    /\ alive /\ pcPoll = "get" /\ cache = NoData
    /\ pcPoll' = "sleep"
    /\ pollMissed' = TRUE
    /\ UNCHANGED <<procVars, certSha256, handlerHash, tlsCert, cache, pcChal,
                   fpWrites, httpVars, proxyCtl, connVars, recvVars, anonVars, fpLoopVars>>

\* The sleep ends and the loop calls cache.Get again.
PollWake ==
    /\ alive /\ pcPoll = "sleep"
    /\ pcPoll' = "get"
    /\ UNCHANGED <<procVars, certSha256, handlerHash, tlsCert, cache, pcChal, pollMissed,
                   fpWrites, httpVars, proxyCtl, connVars, recvVars, anonVars, fpLoopVars>>

\* A polling loop without the break: it computes the fingerprint and polls on.
PollHit_NoBreak ==
    /\ alive /\ pcPoll = "get" /\ cache # NoData
    /\ ApplyFingerprint(cache)
    /\ pcPoll' = "sleep"
    /\ UNCHANGED <<useAcme, pcMain, envVars, flusher, anonReady, handlerHash, tlsCert,
                   cache, pcChal, pollMissed, httpVars, proxyCtl, connVars, recvVars, anonVars, fpLoopVars>>

\* cache.Get succeeds: break, setCertFingerprint(rawData), the goroutine ends.
PollHit ==
    /\ alive /\ pcPoll = "get" /\ cache # NoData
    /\ ApplyFingerprint(cache)
    /\ pcPoll' = "done"
    /\ UNCHANGED <<useAcme, pcMain, envVars, flusher, anonReady, handlerHash, tlsCert,
                   cache, pcChal, pollMissed, httpVars, proxyCtl, connVars, recvVars, anonVars, fpLoopVars>>

\* main: vsock.Listen(srvPort) or net.Listen, fatal on error.
MainListen ==
    /\ alive /\ pcMain = "listen"
    /\ \E ok \in BOOLEAN :
          IF ok THEN pcMain' = "serve" /\ alive' = alive
                ELSE Exit /\ pcMain' = pcMain
    /\ UNCHANGED <<useAcme, envVars, flusher, anonReady, certVars, httpVars, proxyCtl, connVars, recvVars, anonVars, fpLoopVars>>

\* certManager.GetCertificate on the first TLS handshake: autocert obtains a
\* certificate, stores it in the cache and presents it.  The handshake runs
\* in the goroutine of its connection, from the moment ServeTLS runs until
\* the process ends: also while main runs its deferred calls.
AcmeObtain ==
    /\ alive /\ pcMain \in {"serve", "deferred"} /\ useAcme /\ cache = NoData
    /\ \E c \in LeafCerts : cache' = AcmeBundle(c) /\ tlsCert' = c
    /\ UNCHANGED <<procVars, certSha256, handlerHash, pcPoll, pcChal, pollMissed, fpWrites,
                   httpVars, proxyCtl, connVars, recvVars, anonVars, fpLoopVars>>

\* autocert renews the certificate before it expires, on its own timer: a
\* new leaf is stored and presented, until the process ends.
AcmeRenew ==
    /\ alive /\ pcMain \in {"serve", "deferred"} /\ useAcme /\ cache # NoData
    /\ \E c \in LeafCerts \ {tlsCert} : cache' = AcmeBundle(c) /\ tlsCert' = c
    /\ UNCHANGED <<procVars, certSha256, handlerHash, pcPoll, pcChal, pollMissed, fpWrites,
                   httpVars, proxyCtl, connVars, recvVars, anonVars, fpLoopVars>>

\* --------------------------------------------------------------- HTTPS server
\* GET /attest: the handler built by initRouter embeds the hash it was given.
\* A request is answered over TLS, so the listener has a certificate.  The
\* server's connection goroutines answer from the moment ServeTLS runs until
\* the process ends: also after ServeTLS has returned, while main runs its
\* deferred calls.
ServeAttest ==
    /\ alive /\ pcMain \in {"serve", "deferred"} /\ tlsCert # NoCert /\ served < MaxServed
    /\ attestLog' = attestLog \cup {[fp |-> handlerHash, live |-> Sha256(tlsCert)]}
    /\ served' = served + 1
    /\ UNCHANGED <<procVars, certVars, proxyCtl, connVars, recvVars, anonVars, fpLoopVars>>

\* A request to one of the other routes of initRouter.
ServeOther ==
    /\ alive /\ pcMain \in {"serve", "deferred"} /\ tlsCert # NoCert /\ served < MaxServed
    /\ served' = served + 1
    /\ UNCHANGED <<procVars, certVars, attestLog, proxyCtl, connVars, recvVars, anonVars, fpLoopVars>>

\* server.ServeTLS returns (always with an error): the error is printed and
\* main reaches its end, where its deferred calls run.
MainServeReturn ==
    /\ alive /\ pcMain = "serve"
    /\ pcMain' = "deferred"
    /\ UNCHANGED <<alive, useAcme, envVars, flusher, anonReady, certVars, httpVars,
                   proxyCtl, connVars, recvVars, anonVars, fpLoopVars>>

\* main's deferred calls, last first: l.Close() and flusher.Stop().  When
\* Stop has returned main returns, which ends the process; until then the
\* other goroutines run on.
MainDeferred ==
    /\ alive /\ pcMain = "deferred"
    /\ flusher' = "stopped"
    /\ pcMain' = "returned"
    /\ Exit
    /\ UNCHANGED <<useAcme, envVars, anonReady, certVars, httpVars, proxyCtl, connVars,
                   recvVars, anonVars, fpLoopVars>>

\* ------------------------------------------------------------------ VProxy
Min(a, b) == IF a < b THEN a ELSE b
Bytes(n) == [i \in 1..n |-> i]
Prefix(q, n) == SubSeq(q, 1, n)
Suffix(q, n) == SubSeq(q, n + 1, Len(q))
IsPrefix(p, q) == Len(p) <= Len(q) /\ Prefix(q, Len(p)) = p

notProxy == <<procVars, anonVars, certVars, fpLoopVars, httpVars, readySignals, dialWaited, recvVars>>

\* A client connects to bindAddr and sends n bytes: the kernel queues the
\* connection on the bound listener.  Connections arrive in index order.
ConnArrive(c, n) ==
    /\ alive /\ pcProxy \in {"signal", "accept", "dial", "dialBlocked"}
    /\ cstate[c] = "new"
    /\ IF c = 1 THEN TRUE ELSE cstate[c - 1] # "new"
    /\ payload' = [payload EXCEPT ![c] = Bytes(n)]
    /\ avail' = [avail EXCEPT ![c]["up"] = Bytes(n)]
    /\ cstate' = [cstate EXCEPT ![c] = "queued"]
    /\ backlog' = Append(backlog, c)
    /\ UNCHANGED <<notProxy, pcProxy, acceptErrs, cur, lconn, rconn, pipe, buf, out,
                   echoed, peerClosed, closes>>

\* Start, the loop: ln.Accept() returns an error; it is logged, continue.
ProxyAcceptErr ==
    /\ alive /\ pcProxy = "accept"
    /\ acceptErrs < MaxAcceptErrs
    /\ acceptErrs' = acceptErrs + 1
    /\ UNCHANGED <<notProxy, pcProxy, backlog, cur, cstate, lconn, rconn, relayVars>>

\* Start, the loop: ln.Accept() returns the oldest queued connection.
ProxyAccept ==
    /\ alive /\ pcProxy = "accept"
    /\ backlog # <<>>
    /\ cur' = Head(backlog)
    /\ backlog' = Tail(backlog)
    /\ cstate' = [cstate EXCEPT ![Head(backlog)] = "dialing"]
    /\ lconn' = [lconn EXCEPT ![Head(backlog)] = "open"]
    /\ pcProxy' = "dial"
    /\ UNCHANGED <<notProxy, acceptErrs, rconn, relayVars>>

\* A loop that runs the first pipe itself (p.pipe(lconn, rconn) where the
\* code has go p.pipe(lconn, rconn)): it stays in that call.
ProxyDialOk_NoGo ==
    /\ alive /\ pcProxy \in {"dial", "dialBlocked"}
    /\ rconn' = [rconn EXCEPT ![cur] = "open"]
    /\ pipe' = [pipe EXCEPT ![cur] = [d \in Dirs |-> IF d = "up" THEN "read" ELSE "none"]]
    /\ cstate' = [cstate EXCEPT ![cur] = "bridged"]
    /\ cur' = 0
    /\ pcProxy' = "pipe"
    /\ UNCHANGED <<notProxy, acceptErrs, backlog, lconn, buf, avail, out, payload,
                   echoed, peerClosed, closes>>

\* Start, the loop: vsock.Dial succeeds, at once or after a wait;
\* go p.pipe(lconn, rconn) and go p.pipe(rconn, lconn); the loop goes on to
\* the next Accept.
ProxyDialOk ==
    /\ alive /\ pcProxy \in {"dial", "dialBlocked"}
    /\ rconn' = [rconn EXCEPT ![cur] = "open"]
    /\ pipe' = [pipe EXCEPT ![cur] = [d \in Dirs |-> "read"]]
    /\ cstate' = [cstate EXCEPT ![cur] = "bridged"]
    /\ cur' = 0
    /\ pcProxy' = "accept"
    /\ UNCHANGED <<notProxy, acceptErrs, backlog, lconn, buf, avail, out, payload,
                   echoed, peerClosed, closes>>

\* A dial failure that ends Start (a return where the code has continue).
ProxyDialFail_Returns ==
    /\ alive /\ pcProxy \in {"dial", "dialBlocked"}
    /\ cstate' = [cstate EXCEPT ![cur] = "dropped"]
    /\ cur' = 0
    /\ pcProxy' = "returned"
    /\ UNCHANGED <<notProxy, acceptErrs, backlog, lconn, rconn, relayVars>>

\* Start, the loop: vsock.Dial fails, at once or when the wait for the peer
\* ends with the connect timeout; the error is logged, continue.  lconn is
\* left as it is.
ProxyDialFail ==
    /\ alive /\ pcProxy \in {"dial", "dialBlocked"}
    /\ cstate' = [cstate EXCEPT ![cur] = "dropped"]
    /\ cur' = 0
    /\ pcProxy' = "accept"
    /\ UNCHANGED <<notProxy, acceptErrs, backlog, lconn, rconn, relayVars>>

\* vsock.Dial meets a peer that does not answer: the loop waits inside the
\* call.  The wait ends when the peer answers (ProxyDialOk) or when the
\* socket's connect timeout expires (ProxyDialFail).
ProxyDialStall ==
    /\ alive /\ pcProxy = "dial"
    /\ pcProxy' = "dialBlocked"
    /\ dialWaited' = dialWaited \cup {cur}
    /\ UNCHANGED <<procVars, anonVars, certVars, fpLoopVars, httpVars, readySignals,
                   connVars, recvVars>>

\* The connection a pipe reads from, and the one it writes to.
SrcEnd(d) == IF d = "up" THEN "l" ELSE "r"
DstEnd(d) == IF d = "up" THEN "r" ELSE "l"
Other(d) == IF d = "up" THEN "down" ELSE "up"

\* pipe's deferred src.Close(): the pipe ends and its source is closed.
PipeEnd(c, d) ==
    /\ pipe' = [pipe EXCEPT ![c][d] = "done"]
    /\ closes' = [closes EXCEPT ![c][d] = @ + 1]
    /\ IF d = "up"
       THEN lconn' = [lconn EXCEPT ![c] = "closed"] /\ rconn' = rconn
       ELSE rconn' = [rconn EXCEPT ![c] = "closed"] /\ lconn' = lconn

\* pipe: n, err := src.Read(buf) returns n > 0 bytes, at most len(buf).
PipeRead(c, d) ==
    /\ alive /\ pipe[c][d] = "read"
    /\ avail[c][d] # <<>>
    /\ \E n \in 1..Min(BufSize, Len(avail[c][d])) :
          /\ buf' = [buf EXCEPT ![c][d] = Prefix(avail[c][d], n)]
          /\ avail' = [avail EXCEPT ![c][d] = Suffix(avail[c][d], n)]
    /\ pipe' = [pipe EXCEPT ![c][d] = "write"]
    /\ UNCHANGED <<notProxy, pcProxy, loopVars, out, payload, echoed, peerClosed, closes>>

\* pipe: src.Read returns an error (the peer closed and nothing is left to
\* read): log, return.
PipeReadErr(c, d) ==
    /\ alive /\ pipe[c][d] = "read"
    /\ avail[c][d] = <<>>
    /\ SrcEnd(d) \in peerClosed[c]
    /\ PipeEnd(c, d)
    /\ UNCHANGED <<notProxy, pcProxy, acceptErrs, backlog, cur, cstate, buf, avail,
                   out, payload, echoed, peerClosed>>

\* A write of the whole buffer (dst.Write(buf) where the code has buf[:n]):
\* the bytes read, then what the buffer held before.
PipeWrite_WholeBuffer(c, d) ==
    /\ alive /\ pipe[c][d] = "write"
    /\ pipe[c][Other(d)] # "done"
    /\ out' = [out EXCEPT ![c][d] =
                  @ \o buf[c][d] \o [i \in 1..(BufSize - Len(buf[c][d])) |-> 0]]
    /\ buf' = [buf EXCEPT ![c][d] = <<>>]
    /\ pipe' = [pipe EXCEPT ![c][d] = "read"]
    /\ UNCHANGED <<notProxy, pcProxy, loopVars, avail, payload, echoed, peerClosed, closes>>

\* pipe: n, err = dst.Write(b) writes all of b; the loop reads again.
PipeWrite(c, d) ==
    /\ alive /\ pipe[c][d] = "write"
    /\ pipe[c][Other(d)] # "done"
    /\ out' = [out EXCEPT ![c][d] = @ \o buf[c][d]]
    /\ buf' = [buf EXCEPT ![c][d] = <<>>]
    /\ pipe' = [pipe EXCEPT ![c][d] = "read"]
    /\ UNCHANGED <<notProxy, pcProxy, loopVars, avail, payload, echoed, peerClosed, closes>>

\* A pipe that logs the failed or short write and reads on.
PipeWriteFail_ReadsOn(c, d) ==
    /\ alive /\ pipe[c][d] = "write"
    /\ (pipe[c][Other(d)] = "done") \/ (DstEnd(d) \in peerClosed[c])
    /\ \E n \in 0..(Len(buf[c][d]) - 1) :
          out' = [out EXCEPT ![c][d] = @ \o Prefix(buf[c][d], n)]
    /\ buf' = [buf EXCEPT ![c][d] = <<>>]
    /\ pipe' = [pipe EXCEPT ![c][d] = "read"]
    /\ UNCHANGED <<notProxy, pcProxy, loopVars, avail, payload, echoed, peerClosed, closes>>

\* pipe: dst.Write fails or writes n < len(b) bytes: log, return.  dst is
\* closed when the other pipe has ended (it closed its source), and broken
\* when its peer closed.
PipeWriteFail(c, d) ==
    /\ alive /\ pipe[c][d] = "write"
    /\ (pipe[c][Other(d)] = "done") \/ (DstEnd(d) \in peerClosed[c])
    /\ \E n \in 0..(Len(buf[c][d]) - 1) :
          out' = [out EXCEPT ![c][d] = @ \o Prefix(buf[c][d], n)]
    /\ buf' = [buf EXCEPT ![c][d] = <<>>]
    /\ PipeEnd(c, d)
    /\ UNCHANGED <<notProxy, pcProxy, acceptErrs, backlog, cur, cstate, avail,
                   payload, echoed, peerClosed>>

\* The remote peer echoes what it received since its last echo.
RemoteEcho(c) ==
    /\ alive /\ rconn[c] = "open"
    /\ "r" \notin peerClosed[c]
    /\ echoed[c] < Len(out[c]["up"])
    /\ avail' = [avail EXCEPT ![c]["down"] = @ \o Suffix(out[c]["up"], echoed[c])]
    /\ echoed' = [echoed EXCEPT ![c] = Len(out[c]["up"])]
    /\ UNCHANGED <<notProxy, pcProxy, loopVars, pipe, buf, out, payload, peerClosed, closes>>

\* A peer closes its end of a connection: the client ("l") once it is
\* connected, the remote peer ("r") once the dial reached it.
PeerClose(c, e) ==
    /\ alive /\ e \notin peerClosed[c]
    /\ IF e = "l" THEN cstate[c] # "new" ELSE rconn[c] # "none"
    /\ peerClosed' = [peerClosed EXCEPT ![c] = @ \cup {e}]
    /\ UNCHANGED <<notProxy, pcProxy, loopVars, pipe, buf, avail, out, payload, echoed, closes>>

\* ------------------------------------------------------------- webReceiver
notRecv == <<procVars, anonVars, certVars, fpLoopVars, httpVars, proxyCtl, connVars>>

recvCfg == <<port, starting, listening>>
recvRest == <<recvStopped, hpc, hreq, hresp, inboxLog, cpc, batch, posted, ticks>>

\* webReceiver.setConfig(c): w.port = c.port.
SetConfig(p) ==
    /\ alive
    /\ port' = p
    /\ UNCHANGED <<notRecv, recvStarted, starting, listening, recvRest>>

\* webReceiver.start(): go func() {...}() and return.
RecvStart ==
    /\ alive
    /\ starting < MaxStarts
    /\ starting' = starting + 1
    /\ UNCHANGED <<notRecv, recvStarted, port, listening, recvRest>>

\* The goroutine of start(): it reads w.port and runs
\* l.Fatal(srv.ListenAndServe()) on ":<port>".  ListenAndServe binds the
\* port and serves, or returns the bind's error and l.Fatal ends the
\* process.  With port 0 the system picks a free port; a fixed port that a
\* server of this receiver holds cannot be bound again.
RecvListen ==
    /\ alive /\ starting > 0
    /\ starting' = starting - 1
    /\ \E ok \in BOOLEAN :
          IF ok /\ port \notin listening
          THEN /\ recvStarted' = TRUE
               /\ listening' = listening \cup ({port} \ {0})
               /\ alive' = alive
          ELSE Exit /\ UNCHANGED <<recvStarted, listening>>
    /\ UNCHANGED <<useAcme, pcMain, envVars, flusher, anonReady, anonVars, certVars,
                   fpLoopVars, httpVars, proxyCtl, connVars, port, recvRest>>

\* The goroutine of start(), later: ListenAndServe returns while serving (its
\* Accept failed for good), and l.Fatal ends the process.
RecvServeEnds ==
    /\ alive /\ recvStarted
    /\ Exit
    /\ UNCHANGED <<useAcme, pcMain, envVars, flusher, anonReady, anonVars, certVars,
                   fpLoopVars, httpVars, proxyCtl, connVars, recvVars>>

\* webReceiver.stop(): close(w.done).  Nothing receives from w.done: the
\* server that start() runs is not shut down.  A second call closes a closed
\* channel, which panics.
RecvStop ==
    /\ alive
    /\ IF recvStopped THEN Exit /\ recvStopped' = recvStopped
                      ELSE recvStopped' = TRUE /\ alive' = alive
    /\ UNCHANGED <<useAcme, pcMain, envVars, flusher, anonReady, anonVars, certVars,
                   fpLoopVars, httpVars, proxyCtl, connVars, recvStarted, recvCfg, hpc,
                   hreq, hresp, inboxLog, cpc, batch, posted, ticks>>

\* The checks of getConfTokenHandler, in the handler's order: the 400
\* response of the first that fails, or NoResp when all pass.
Validate(req) ==
    IF ~IsValidApiVersion(req.version) THEN [code |-> 400, body |-> errBadApiVersion]
    ELSE IF UuidParse(req.wallet).err THEN [code |-> 400, body |-> errBadWalletFmt]
    ELSE IF req.addr = "" THEN [code |-> 400, body |-> errNoFastlyHeader]
    ELSE IF ParseIP(req.addr) = 0 THEN [code |-> 400, body |-> errBadFastlyAddrFormat]
    ELSE NoResp

\* &clientRequest{Addr: addr, Wallet: walletID}
ClientRequest(req) == [addr |-> ParseIP(req.addr), wallet |-> UuidParse(req.wallet).id]

\* getConfTokenHandler's handler, from its start to errAndReport and return,
\* or to the send inbox <- &clientRequest{...}, where it blocks.
ConfTokenRequest(h, req) ==
    /\ alive /\ recvStarted
    /\ hpc[h] = "idle"
    /\ IF h = 1 THEN TRUE ELSE hpc[h - 1] # "idle"
    /\ hreq' = [hreq EXCEPT ![h] = req]
    /\ IF Validate(req) # NoResp
       THEN hresp' = [hresp EXCEPT ![h] = Validate(req)] /\ hpc' = [hpc EXCEPT ![h] = "done"]
       ELSE hresp' = hresp /\ hpc' = [hpc EXCEPT ![h] = "send"]
    /\ UNCHANGED <<notRecv, recvStarted, recvCfg, recvStopped, inboxLog, cpc, batch, posted, ticks>>

\* The send on the unbuffered channel w.in (make(chan serializer)) completes
\* when the consumer receives; the handler returns and the server answers
\* 200 with an empty body.
InboxHandoff(h) ==
    /\ alive /\ hpc[h] = "send"
    /\ cpc = "drain"
    /\ inboxLog' = Append(inboxLog, [by |-> h, rec |-> ClientRequest(hreq[h]), tick |-> ticks])
    /\ batch' = Append(batch, ClientRequest(hreq[h]))
    /\ hpc' = [hpc EXCEPT ![h] = "done"]
    /\ hresp' = [hresp EXCEPT ![h] = [code |-> 200, body |-> ""]]
    /\ UNCHANGED <<notRecv, recvStarted, recvCfg, recvStopped, hreq, cpc, posted, ticks>>

\* The consumer's timer fires: it starts to drain the inbox.
FlusherTick ==
    /\ alive /\ cpc = "wait"
    /\ ticks < MaxTicks
    /\ ticks' = ticks + 1
    /\ cpc' = "drain"
    /\ UNCHANGED <<notRecv, recvStarted, recvCfg, recvStopped, hpc, hreq, hresp, inboxLog, batch, posted>>

\* A drain that goes on to deliver whatever it holds, an empty batch too.
FlusherDrainEnd_DeliversEmpty ==
    /\ alive /\ cpc = "drain"
    /\ \A h \in Reqs : hpc[h] # "send"
    /\ cpc' = "deliver"
    /\ UNCHANGED <<notRecv, recvStarted, recvCfg, recvStopped, hpc, hreq, hresp, inboxLog, batch, posted, ticks>>

\* The non-blocking drain finds nothing more to receive: an empty batch ends
\* the interval, a non-empty one is delivered.
FlusherDrainEnd ==
    /\ alive /\ cpc = "drain"
    /\ \A h \in Reqs : hpc[h] # "send"
    /\ cpc' = IF batch = <<>> THEN "wait" ELSE "deliver"
    /\ UNCHANGED <<notRecv, recvStarted, recvCfg, recvStopped, hpc, hreq, hresp, inboxLog, batch, posted, ticks>>

\* The POST of the batch to the downstream bridge returns, with success or
\* with an error: the batch is gone either way.
FlusherDeliver ==
    /\ alive /\ cpc = "deliver"
    /\ \E ok \in BOOLEAN : posted' = Append(posted, [records |-> batch, ok |-> ok, tick |-> ticks])
    /\ batch' = <<>>
    /\ cpc' = "wait"
    /\ UNCHANGED <<notRecv, recvStarted, recvCfg, recvStopped, hpc, hreq, hresp, inboxLog, ticks>>

\* ------------------------------------------------------------- specifications
\* main() up to <-done, and the proxy up to its readiness signal.
ProxyStartup ==
    \/ MainNitroSetup
    \/ MainInitRouter
    \/ MainInitAnonymization
    \/ MainNewVProxy
    \/ ProxyBind
    \/ ReadyHandoff

Next ==
    \/ ProxyStartup
    \/ MainSetEnvHTTP
    \/ MainSetEnvHTTPS
    \/ MainNewFlusher
    \/ MainStartFlusher
    \/ MainSelfSigned
    \/ MainSetupAcme
    \/ ChallengeListen
    \/ PollMiss
    \/ PollWake
    \/ PollHit
    \/ MainListen
    \/ AcmeObtain
    \/ AcmeRenew
    \/ ServeAttest
    \/ ServeOther
    \/ MainServeReturn
    \/ MainDeferred

Spec == Init /\ [][Next]_vars

\* main()'s steps after <-done touch nothing the proxy reads or writes;
\* ProxySpec leaves them to Spec.
ProxyNext ==
    \/ ProxyStartup
    \/ \E c \in Conns : ConnArrive(c, LoopPayloadLen)
    \/ ProxyAcceptErr
    \/ ProxyAccept
    \/ ProxyDialOk
    \/ ProxyDialFail
    \/ ProxyDialStall
    \/ \E c \in Conns, d \in Dirs : PipeRead(c, d)
    \/ \E c \in Conns, d \in Dirs : PipeReadErr(c, d)
    \/ \E c \in Conns, d \in Dirs : PipeWrite(c, d)
    \/ \E c \in Conns, d \in Dirs : PipeWriteFail(c, d)
    \/ \E c \in Conns : RemoteEcho(c)
    \/ \E c \in Conns, e \in {"l", "r"} : PeerClose(c, e)

ProxySpec == BuildInit /\ [][ProxyNext]_vars

\* One client whose dial succeeds, with a payload below, at or above the
\* buffer size, and the two pipes of its connection pair.
RelayNext ==
    \/ ProxyStartup
    \/ \E n \in PayloadSizes : ConnArrive(1, n)
    \/ ProxyAccept
    \/ ProxyDialOk
    \/ \E d \in Dirs : PipeRead(1, d)
    \/ \E d \in Dirs : PipeReadErr(1, d)
    \/ \E d \in Dirs : PipeWrite(1, d)
    \/ \E d \in Dirs : PipeWriteFail(1, d)
    \/ RemoteEcho(1)
    \/ \E e \in {"l", "r"} : PeerClose(1, e)

RelaySpec == BuildInit /\ [][RelayNext]_vars

RecvNext ==
    \/ \E p \in ConfigPorts : SetConfig(p)
    \/ RecvStart
    \/ RecvListen
    \/ RecvServeEnds
    \/ RecvStop
    \/ \E h \in Reqs, v \in VersionInputs, w \in WalletInputs, a \in AddrInputs :
          ConfTokenRequest(h, [version |-> v, wallet |-> w, addr |-> a])
    \/ \E h \in Reqs : InboxHandoff(h)
    \/ FlusherTick
    \/ FlusherDrainEnd
    \/ FlusherDeliver

RecvSpec == BuildInit /\ [][RecvNext]_vars

\* setCertFingerprint on its own, called with any of the PEM data of Chains.
CertNext ==
    \/ \E data \in Chains : FpCall(data)
    \/ FpIterate

CertSpec == BuildInit /\ [][CertNext]_vars

\* The loop is straight-line code of one goroutine: it takes its next step.
FairCertSpec == CertSpec /\ WF_vars(FpIterate)

\* One client and its connection pair, the pipes' steps weakly fair.  Nothing
\* obliges a peer to send or to close.
FairRelaySpec ==
    /\ RelaySpec
    /\ WF_vars(ReadyHandoff)
    /\ WF_vars(ProxyAccept)
    /\ WF_vars(ProxyDialOk)
    /\ \A d \in Dirs :
          /\ WF_vars(PipeRead(1, d))
          /\ WF_vars(PipeReadErr(1, d))
          /\ WF_vars(PipeWrite(1, d) \/ PipeWriteFail(1, d))

\* main() and the goroutines of setupAcme: the polling goroutine takes its
\* next step (cache.Get returns, the sleep ends).
FairSpec ==
    /\ Spec
    /\ WF_vars(PollMiss)
    /\ WF_vars(PollWake)
    /\ WF_vars(PollHit)

\* The accept loop is straight-line code of one goroutine and each of its
\* calls returns: Accept when a connection is queued, Dial with a connection
\* or an error (a connect that meets no answer ends with the socket's
\* timeout).  The loop's steps are weakly fair.  Nothing obliges a client to
\* connect or a peer to send, to read or to close, and no pipe is obliged to
\* move.
FairProxySpec ==
    /\ ProxySpec
    /\ WF_vars(ReadyHandoff)
    /\ WF_vars(ProxyAccept)
    /\ WF_vars(ProxyDialOk \/ ProxyDialFail)

\* ===================================================================== claims

\* C1: whenever GET /attest is answered, the fingerprint in the answer is the
\* SHA-256 digest of the leaf certificate the HTTPS listener presents.
C1_AttestEmbedsLiveFingerprint == \A r \in attestLog : r.fp = r.live

\* C2: under either issuance path, the fingerprint has been computed and
\* stored before the first request is served.
C2_FingerprintBeforeServing == served > 0 => fpWrites > 0

\* The calls of connection b's own two pipes return: a Read with bytes to
\* read or a closed peer, a Write whose peer takes the bytes or is gone.
OwnPipesMove(b) ==
    \A d \in Dirs :
        /\ WF_vars(PipeRead(b, d))
        /\ WF_vars(PipeReadErr(b, d))
        /\ WF_vars(PipeWrite(b, d) \/ PipeWriteFail(b, d))

\* What the proxy holds of connection c: its place in the loop, its two
\* ends and its two pipes.
ConnState(c) == <<cstate[c], lconn[c], rconn[c], pipe[c], buf[c], out[c], closes[c]>>

\* C3: connections are independent.  No step changes what the proxy holds
\* of two connections.  Whatever happens to the other connections (a dial
\* that waits or fails, pipes that fail or that never move again, blocked in
\* Read or in Write), a queued connection B is eventually accepted and its
\* dial returns, and when the calls of B's own pipes return, a pipe of B that
\* holds bytes it read eventually leaves its Write, and a pipe of B that has
\* bytes to read eventually leaves its Read.
C3_ConnectionsIndependent ==
    /\ [][\A a, b \in Conns :
              (a # b /\ ConnState(a)' # ConnState(a)) => ConnState(b)' = ConnState(b)]_vars
    /\ \A b \in Conns : (cstate[b] = "queued") ~> (cstate[b] \in {"bridged", "dropped"})
    /\ \A b \in Conns :
          OwnPipesMove(b) =>
              \A d \in Dirs :
                  /\ (pipe[b][d] = "write") ~> (pipe[b][d] # "write")
                  /\ (pipe[b][d] = "read" /\ avail[b][d] # <<>>) ~> (pipe[b][d] # "read")

\* C3, its case: the dial of connection 1 had to wait and failed, and
\* connection 2 was accepted and bridged, and its data came back.
C3_Witness ==
    /\ 1 \in dialWaited
    /\ cstate[1] = "dropped"
    /\ cstate[2] = "bridged"
    /\ payload[2] # <<>>
    /\ out[2]["down"] = payload[2]

\* C4: a connection whose dial failed is closed, and no forwarding task was
\* started for it.
C4_DialFailureDropsConnection ==
    \A c \in Conns :
        cstate[c] = "dropped" =>
            /\ lconn[c] = "closed"
            /\ rconn[c] = "none"
            /\ \A d \in Dirs : pipe[c][d] = "none"

\* C5: once the proxy listens, its loop is never left, whatever errors Accept
\* and Dial returned: it is in Accept or in Dial, a queued connection can be
\* accepted whenever the loop is in Accept, and a connection is bridged
\* exactly when it has its two forwarding tasks, one per direction.
C5_LoopSurvivesErrors ==
    /\ readySignals = 1 => pcProxy \in {"accept", "dial", "dialBlocked"}
    /\ (pcProxy = "accept" /\ backlog # <<>>) => ENABLED ProxyAccept
    /\ \A c \in Conns :
          /\ cstate[c] = "bridged" => \A d \in Dirs : pipe[c][d] # "none"
          /\ cstate[c] # "bridged" => \A d \in Dirs : pipe[c][d] = "none"

\* C5, its case: after an Accept error and a failed dial, the next
\* connection is bridged with both tasks.
C5_Witness ==
    /\ acceptErrs >= 1
    /\ cstate[1] = "dropped"
    /\ cstate[2] = "bridged"
    /\ \A d \in Dirs : pipe[2][d] # "none"

\* C6: in each direction the bytes written are a prefix of the bytes sent,
\* and while a pipe runs, the bytes written, the bytes in its buffer and the
\* bytes still to read are together exactly what was sent, in order; so a
\* payload of any length comes back as it was sent.
C6_RelayKeepsBytes ==
    \A c \in Conns :
        /\ IsPrefix(out[c]["up"], payload[c])
        /\ IsPrefix(out[c]["down"], out[c]["up"])
        /\ Len(buf[c]["up"]) <= BufSize /\ Len(buf[c]["down"]) <= BufSize
        /\ pipe[c]["up"] \in {"read", "write"} =>
              out[c]["up"] \o buf[c]["up"] \o avail[c]["up"] = payload[c]
        /\ pipe[c]["down"] \in {"read", "write"} =>
              out[c]["down"] \o buf[c]["down"] \o avail[c]["down"]
                  = Prefix(out[c]["up"], echoed[c])

\* C6, its case: a payload one byte longer than the buffer came back whole.
C6_Witness ==
    /\ Len(payload[1]) = BufSize + 1
    /\ out[1]["down"] = payload[1]

\* C7: the readiness signal is sent once, after the bind and before the
\* first Accept; the proxy variables are set only after it, the flusher is
\* created only after both are set; a failed bind ends the process with none
\* of them.
C7_ReadinessOrder ==
    /\ readySignals <= 1
    /\ readySignals = 1 => pcProxy \notin {"off", "bind", "bindFailed"}
    /\ pcProxy \in {"accept", "dial", "dialBlocked"} => readySignals = 1
    /\ envVars # {} => readySignals = 1
    /\ flusher # "none" => envVars = {"HTTP_PROXY", "HTTPS_PROXY"}
    /\ pcProxy = "bindFailed" =>
          ~alive /\ readySignals = 0 /\ envVars = {} /\ flusher = "none"

\* C7, its case: the flusher runs, after the signal and both variables.
C7_Witness ==
    /\ flusher = "started"
    /\ readySignals = 1
    /\ envVars = {"HTTP_PROXY", "HTTPS_PROXY"}

\* What the claim calls an integer in 1..4: a decimal numeral of 1, 2, 3 or
\* 4, leading zeros allowed.
RECURSIVE StripZeros(_)
StripZeros(v) ==
    IF Len(v) > 1 /\ Head(v) = "0" THEN StripZeros(Tail(v)) ELSE v
VersionInRange(v) == StripZeros(v) \in {<<"1">>, <<"2">>, <<"3">>, <<"4">>}

\* The reason of the first boundary check a request fails, "" when it
\* passes all four.
FailedCheck(req) ==
    IF ~VersionInRange(req.version) THEN errBadApiVersion
    ELSE IF UuidParse(req.wallet).err THEN errBadWalletFmt
    ELSE IF req.addr = "" THEN errNoFastlyHeader
    ELSE IF ParseIP(req.addr) = 0 THEN errBadFastlyAddrFormat
    ELSE ""

InboxWrites(h) == {i \in 1..Len(inboxLog) : inboxLog[i].by = h}

\* C8: a request that fails a check is answered 400 with that check's reason
\* and writes nothing to the inbox; a request that passes them all writes
\* exactly one record, with the parsed address and identifier.
C8_ValidationGatesInbox ==
    \A h \in Reqs :
        /\ hpc[h] = "idle" => InboxWrites(h) = {}
        /\ hpc[h] = "send" => FailedCheck(hreq[h]) = "" /\ InboxWrites(h) = {}
        /\ (hpc[h] = "done" /\ FailedCheck(hreq[h]) # "") =>
              /\ hresp[h] = [code |-> 400, body |-> FailedCheck(hreq[h])]
              /\ InboxWrites(h) = {}
        /\ (hpc[h] = "done" /\ FailedCheck(hreq[h]) = "") =>
              /\ hresp[h] = [code |-> 200, body |-> ""]
              /\ Cardinality(InboxWrites(h)) = 1
              /\ \A i \in InboxWrites(h) :
                    inboxLog[i].rec = [addr |-> ParseIP(hreq[h].addr),
                                       wallet |-> UuidParse(hreq[h].wallet).id]

\* C8, its case: one request was refused for its address, another one was
\* enqueued and answered 200.
C8_Witness ==
    \E g, h \in Reqs :
        /\ hresp[g] = [code |-> 400, body |-> errBadFastlyAddrFormat]
        /\ hresp[h].code = 200
        /\ InboxWrites(h) # {}

\* C9: a handler that passed validation completes its enqueue without
\* waiting for the consumer: whenever it is at the send, the send can
\* complete.
C9_EnqueueNeverWaits ==
    \A h \in Reqs : hpc[h] = "send" => ENABLED InboxHandoff(h)

\* C10: once a digest is stored in certSha256, no step changes it or stores
\* another.
C10_FingerprintWrittenOnce ==
    [][fpWrites > 0 => (certSha256' = certSha256 /\ fpWrites' = fpWrites)]_vars

\* C10, its case: the polling task stored the digest and has ended, and the
\* certificate was renewed since: the digest is still the first one.
C10_Witness ==
    /\ useAcme
    /\ pcPoll = "done"
    /\ fpWrites = 1
    /\ certSha256 # ZeroHash
    /\ certSha256 # Sha256(tlsCert)

\* The key material of the strategy the constant selects is a key that
\* crypto/rand drew.
KeyMaterialSet ==
    IF useCryptoPAn THEN cryptoPAn \in {Key(k) : k \in Keys}
                    ELSE hmacKey \in {Key(k) : k \in Keys}

\* C11: initAnonymization has completed, with the key material drawn, before
\* the proxy, the Flusher, either listener or any served request exists; a
\* run in which it failed has ended with none of them started.
C11_KeyMaterialBeforeServing ==
    /\ anonReady => KeyMaterialSet
    /\ ( \/ pcProxy # "off"
         \/ flusher # "none"
         \/ pcChal # "off"
         \/ pcMain \in {"serve", "deferred", "returned"}
         \/ tlsCert # NoCert
         \/ served > 0 ) => anonReady
    /\ (pcMain = "initAnon" /\ ~alive) =>
          /\ ~anonReady
          /\ pcProxy = "off" /\ flusher = "none" /\ pcChal = "off" /\ served = 0

\* C11, its case: a request was served, after initAnonymization drew the key.
C11_Witness == served > 0 /\ anonReady /\ KeyMaterialSet

\* C12: in a build with debug disabled no log event contains the HMAC key or
\* the Crypto-PAn key.
C12_KeyLoggedOnlyInDebug == ~debug => keyLog = {}

\* C13: after initAnonymization exactly one strategy's key material is
\* initialised, the one the constant selects, and no later step reassigns
\* the key material or the constant.
C13_OneStrategyOneKey ==
    [][ /\ anonReady' =>
              /\ useCryptoPAn' => (cryptoPAn' # NoKey /\ hmacKey' = NoKey)
              /\ ~useCryptoPAn' => (hmacKey' # NoKey /\ cryptoPAn' = NoKey)
        /\ anonReady =>
              /\ hmacKey' = hmacKey
              /\ cryptoPAn' = cryptoPAn
              /\ useCryptoPAn' = useCryptoPAn
              /\ anonReady' ]_vars

\* C13, its case: the HMAC strategy's key is set, the Crypto-PAn instance is
\* not, and the process has gone on to serve requests.
C13_Witness ==
    /\ anonReady /\ ~useCryptoPAn
    /\ hmacKey # NoKey /\ cryptoPAn = NoKey
    /\ served > 0

\* The positions of the blocks at which setCertFingerprint can end: a
\* certificate that parses and is no CA, or a certificate that does not parse.
LeafAt(data) ==
    {i \in 1..Len(data) : data[i].type = "CERTIFICATE" /\ data[i].parses /\ ~data[i].isCA}
UnparsableAt(data) ==
    {i \in 1..Len(data) : data[i].type = "CERTIFICATE" /\ ~data[i].parses}
FirstOf(S) == CHOOSE i \in S : \A j \in S : i <= j
\* The first certificate that is not a CA exists and every certificate block
\* before it parses.
HasUsableLeaf(data) ==
    /\ LeafAt(data) # {}
    /\ \A j \in UnparsableAt(data) : FirstOf(LeafAt(data)) < j

\* C14: setCertFingerprint stores the SHA-256 digest of the first certificate
\* in chain order that is not a CA, whatever CA certificates, other PEM blocks
\* and text come before it; when the data holds no such certificate, or the
\* loop meets a certificate block that does not parse, the process exits and
\* certSha256 is left as it was.
C14_FirstLeafFingerprint ==
    /\ fpPc = "returned" =>
          /\ HasUsableLeaf(fpInput)
          /\ certSha256 = Sha256(fpInput[FirstOf(LeafAt(fpInput))].raw)
          /\ fpWrites = 1 /\ alive
    /\ fpPc = "fatal" =>
          /\ ~HasUsableLeaf(fpInput)
          /\ certSha256 = ZeroHash /\ fpWrites = 0 /\ ~alive
    /\ fpPc \in {"returned", "fatal"} =>
          SetCertFingerprint(fpInput) = [fatal |-> fpPc = "fatal", fp |-> certSha256]

\* C14, its case: the leaf came after a key block and a CA certificate, and
\* its digest was stored.
C14_Witness ==
    /\ fpPc = "returned"
    /\ fpInput = <<KeyBlock, CaCert(1), Leaf(2)>>
    /\ certSha256 = Sha256(2)

\* C19: setCertFingerprint terminates on every input: an iteration that
\* neither returns nor exits leaves strictly less PEM data to decode, and
\* every call reaches its return or the process's exit.
C19_FingerprintLoopTerminates ==
    /\ [][(fpPc = "loop" /\ fpPc' = "loop") => Len(fpRawData') < Len(fpRawData)]_vars
    /\ (fpPc = "loop") ~> (fpPc \in {"returned", "fatal"})

\* C19, its case: the data held CA certificates only, followed by text that
\* is no PEM block; the loop went through them and the process exited.
C19_Witness ==
    /\ fpPc = "fatal"
    /\ fpInput = <<CaCert(1), CaCert(2), Garbage>>
    /\ fpRawData = <<Garbage>>

\* The records received from the inbox in the interval the t-th tick ended,
\* in the order they were received, and the deliveries of that interval.
RECURSIVE RecsOf(_, _)
RecsOf(log, t) ==
    IF log = <<>> THEN <<>>
    ELSE IF Head(log).tick = t THEN <<Head(log).rec>> \o RecsOf(Tail(log), t)
         ELSE RecsOf(Tail(log), t)
DeliveriesOf(t) == {i \in 1..Len(posted) : posted[i].tick = t}

C20_StopEndsIntake ==
    [][recvStopped =>
          /\ \A h \in Reqs : hpc[h] = "idle" => hpc'[h] = "idle"
          /\ inboxLog' = inboxLog]_vars

\* C18: in the externally-issued path a miss of the cache is followed by the
\* sleep and another cache.Get, never by the end of the task or of the
\* process; once the cache holds material the task reads it, calls
\* setCertFingerprint once (the digest is stored or the process exits) and
\* polls no more.
C18_PollUntilCached ==
    /\ [][ /\ (pcPoll = "get" /\ pcPoll' # "get") =>
                 IF cache = NoData
                 THEN pcPoll' = "sleep" /\ alive'
                 ELSE /\ pcPoll' = "done"
                      /\ (fpWrites' = fpWrites + 1 \/ ~alive')
           /\ (pcPoll = "sleep" /\ pcPoll' # "sleep") => (pcPoll' = "get" /\ alive')
           /\ pcPoll = "done" => (pcPoll' = "done" /\ fpWrites' = fpWrites)
           /\ (useAcme /\ pcPoll' = pcPoll) => fpWrites' = fpWrites ]_vars
    /\ (pcPoll \in {"get", "sleep"} /\ cache # NoData) ~> (pcPoll = "done" \/ ~alive)

\* C18, its case: the task missed, the certificate was issued and cached
\* afterwards, and the task read it, stored its digest and ended.
C18_Witness ==
    /\ useAcme /\ pollMissed
    /\ pcPoll = "done" /\ fpWrites = 1
    /\ certSha256 = Sha256(tlsCert)
    /\ alive

\* The connection a pipe reads from is closed.
SrcClosed(c, d) == IF d = "up" THEN lconn[c] = "closed" ELSE rconn[c] = "closed"

\* C16: a forwarding task ends at its first read error, write error or short
\* write; it has then closed its source exactly once, and it reads nothing
\* more from its source and writes nothing more to its destination.
C16_PipeStopsAtFirstError ==
    /\ [](\A c \in Conns, d \in Dirs :
            /\ pipe[c][d] = "done" => (closes[c][d] = 1 /\ SrcClosed(c, d))
            /\ pipe[c][d] # "done" => closes[c][d] = 0)
    /\ [][\A c \in Conns, d \in Dirs :
            /\ (pipe[c][d] = "write" /\ pipe'[c][d] # "write"
                  /\ out'[c][d] # out[c][d] \o buf[c][d]) => pipe'[c][d] = "done"
            /\ (pipe[c][d] = "read" /\ pipe'[c][d] # "read"
                  /\ avail'[c][d] = avail[c][d]) => pipe'[c][d] = "done"
            /\ pipe[c][d] = "done" =>
                  /\ pipe'[c][d] = "done"
                  /\ out'[c][d] = out[c][d]
                  /\ buf'[c][d] = buf[c][d]
                  /\ IsPrefix(avail[c][d], avail'[c][d])
                  /\ closes'[c][d] = closes[c][d]]_vars

\* C16, its case: the upward pipe ended at a short write, with bytes of the
\* client still unread, and the client's connection is closed.
C16_Witness ==
    /\ pipe[1]["up"] = "done" /\ closes[1]["up"] = 1 /\ lconn[1] = "closed"
    /\ out[1]["up"] # <<>>
    /\ Len(out[1]["up"]) + Len(avail[1]["up"]) < Len(payload[1])
    /\ avail[1]["up"] # <<>>

\* C17: once one forwarding task of a pair has ended, the other ends too and
\* both connections of the pair are closed.
C17_PairClosesAsWhole ==
    \A c \in Conns :
        (\E d \in Dirs : pipe[c][d] = "done") ~>
            (/\ \A d \in Dirs : pipe[c][d] = "done"
             /\ lconn[c] = "closed" /\ rconn[c] = "closed")

====
